---- MODULE Spec2Model ----
(***************************************************************************)
(* Model of the ICTMSSStrategy engine of noddle_trader (strategy.py).      *)
(*                                                                         *)
(* Prices are integers, in ticks of one pip (0.0001): the engine only      *)
(* compares, adds and subtracts prices, and the few divisions (the         *)
(* consequent-encroachment midpoint, the ATR mean, the lot size) are       *)
(* modelled exactly by cross-multiplication.  A candle is the record       *)
(* [time, high, low, close]; open and volume are never read by the engine. *)
(* A DataFrame is the sequence of its rows, row i of the source            *)
(* (df.iloc[i], 0-based) being element i+1 of the sequence.                *)
(***************************************************************************)
EXTENDS Integers, Sequences, FiniteSets, TLC

VARIABLES
    fvg_memoria,          \* self.fvg_memoria: plain-gap memory
    ifvg_memoria,         \* self.ifvg_memoria: inversion-gap memory
    ultimo_sesgo_valido,  \* self.ultimo_sesgo_valido ("None" when unset)
    analysis_counter,     \* self.analysis_counter
    operaciones,          \* self.operaciones: the ledger
    retorno,              \* what the last call returned
    traza,                \* what the last call did (audit of the call)
    reloj,                \* the feed: time of the newest candle delivered
    archivos              \* output/: the analysis records handed to the sink

vars == << fvg_memoria, ifvg_memoria, ultimo_sesgo_valido, analysis_counter,
           operaciones, retorno, traza, reloj, archivos >>

(***************************************************************************)
(* Configuration of the engine under analysis (the keys read by __init__), *)
(* in ticks.                                                               *)
(***************************************************************************)
TOLERANCIA_MITIGACION == 1
CUENTA_INICIAL == 8
RIESGO_PCT == 1               \* RIESGO_POR_OPERACION, in percent (0.01)
RR == 2
VALOR_POR_PIP == 3
MIN_VELAS_M15 == 2
ATR_PERIODO == 3
FVG_MIN_PCT_NUM == 1          \* FVG_MIN_PCT_ATR = NUM / DEN
FVG_MIN_PCT_DEN == 2
UMBRAL_SESION == 1
RANGO_MINIMO_VELA == 1
USAR_FILTRO_SESION == FALSE

(***************************************************************************)
(* Bounds of the model.                                                    *)
(***************************************************************************)
MaxAnalisis == 3      \* analyze calls in one behaviour
MaxVelasM15 == 2      \* longest higher-timeframe window
MaxVelasM1 == 11      \* longest lower-timeframe window
MaxVelasSesgo == 3    \* longest frame given to the bias detector alone
MaxVelasFiltro == 3   \* longest frame given to the session filter alone
MaxOperaciones == 2   \* ledger records in one behaviour
MaxPrecioEntrada == 4 \* highest price given to the entry evaluation alone

None == "None"
NoSenal == [direccion |-> None]

(***************************************************************************)
(* Helpers on sequences and numbers.                                       *)
(***************************************************************************)
Abs(x) == IF x < 0 THEN -x ELSE x
Max2(a, b) == IF a >= b THEN a ELSE b
Min2(a, b) == IF a <= b THEN a ELSE b
\* s[:n]
Take(s, n) == SubSeq(s, 1, Min2(n, Len(s)))
\* df.tail(n)
TailN(s, n) == SubSeq(s, Max2(1, Len(s) - n + 1), Len(s))
\* df.iloc[i], i 0-based and 0 <= i < len(df)
Iloc(df, i) == df[i + 1]
\* list.remove(x): drops the first element equal to x
RECURSIVE RemoveFirst(_, _)
RemoveFirst(s, x) ==
    IF s = << >> THEN << >>
    ELSE IF Head(s) = x THEN Tail(s)
    ELSE << Head(s) >> \o RemoveFirst(Tail(s), x)

(***************************************************************************)
(* _filtrar_sesion_ny: with the flag off the frame is returned as it is;   *)
(* with it on, the rows whose New York time of day lies in the session.    *)
(* Candle times are whole hours UTC; New York is taken as UTC-5.           *)
(***************************************************************************)
SESION_INICIO == 12
SESION_FIN == 16
HoraNY(t) == (t + 24 - 5) % 24
EnSesion(vela) == HoraNY(vela.time) >= SESION_INICIO /\ HoraNY(vela.time) <= SESION_FIN
\* a variant that applies the session mask whatever the flag says
filtrar_sesion_siempre(usar, df) == SelectSeq(df, EnSesion)

\* the method for a given value of self.USAR_FILTRO_SESION
filtrar_sesion(usar, df) ==
    IF ~usar THEN df ELSE SelectSeq(df, EnSesion)

filtrar_sesion_ny(df) == filtrar_sesion(USAR_FILTRO_SESION, df)

(***************************************************************************)
(* _calcular_atr, as the rational [num, den]: the true range of row j is   *)
(* max(high-low, |high-close[j-1]|, |low-close[j-1]|), the two last terms  *)
(* being NaN (skipped by max) on row 0; rolling(periodo).mean() is NaN on  *)
(* the first periodo-1 rows, which fillna replaces by the true range.      *)
(***************************************************************************)
TrueRange(df, j) ==
    LET v == Iloc(df, j)
        hl == v.high - v.low
    IN  IF j = 0 THEN hl
        ELSE LET c == Iloc(df, j - 1).close
             IN  Max2(hl, Max2(Abs(v.high - c), Abs(v.low - c)))

RECURSIVE SumTR(_, _, _)
SumTR(df, desde, hasta) ==
    IF desde > hasta THEN 0
    ELSE TrueRange(df, desde) + SumTR(df, desde + 1, hasta)

\* atr_series.iloc[-1] if not atr_series.empty else 0
current_atr(df, periodo) ==
    LET n == Len(df)
    IN  IF n = 0 THEN [num |-> 0, den |-> 1]
        ELSE IF n >= periodo
             THEN [num |-> SumTR(df, n - periodo, n - 1), den |-> periodo]
             ELSE [num |-> TrueRange(df, n - 1), den |-> 1]

(***************************************************************************)
(* _determinar_sesgo_m15: the bias, the reference level (<< >> for None),  *)
(* the branch that decided, and the value of self.ultimo_sesgo_valido      *)
(* after the call.                                                         *)
(***************************************************************************)
RECURSIVE MaxHigh(_)
MaxHigh(df) ==
    IF Len(df) = 1 THEN df[1].high ELSE Max2(df[1].high, MaxHigh(Tail(df)))
RECURSIVE MinLow(_)
MinLow(df) ==
    IF Len(df) = 1 THEN df[1].low ELSE Min2(df[1].low, MinLow(Tail(df)))

\* a variant that forgets the persisted bias when the window is too short
determinar_sesgo_m15_olvida(df_m15, ultimo) ==
    IF Len(df_m15) < MIN_VELAS_M15
    THEN [sesgo |-> None, nivel |-> << >>, rama |-> "insuficiente", ultimo |-> None]
    ELSE
    LET ultimas == TailN(df_m15, MIN_VELAS_M15)
        high == MaxHigh(ultimas)
        low == MinLow(ultimas)
        precio == ultimas[Len(ultimas)].close
        tendencia == ultimas[Len(ultimas)].close - ultimas[1].close
    IN  IF precio > high
        THEN [sesgo |-> "alcista", nivel |-> << high >>, rama |-> "ruptura", ultimo |-> "alcista"]
        ELSE IF precio < low
        THEN [sesgo |-> "bajista", nivel |-> << low >>, rama |-> "ruptura", ultimo |-> "bajista"]
        ELSE IF precio > high - UMBRAL_SESION
        THEN [sesgo |-> "alcista", nivel |-> << high >>, rama |-> "umbral", ultimo |-> "alcista"]
        ELSE IF precio < low + UMBRAL_SESION
        THEN [sesgo |-> "bajista", nivel |-> << low >>, rama |-> "umbral", ultimo |-> "bajista"]
        ELSE IF tendencia > 0
        THEN [sesgo |-> "alcista", nivel |-> << high >>, rama |-> "tendencia", ultimo |-> "alcista"]
        ELSE IF tendencia < 0
        THEN [sesgo |-> "bajista", nivel |-> << low >>, rama |-> "tendencia", ultimo |-> "bajista"]
        ELSE IF ultimo # None
        THEN [sesgo |-> ultimo, nivel |-> << >>, rama |-> "ultimo_valido", ultimo |-> ultimo]
        ELSE [sesgo |-> None, nivel |-> << >>, rama |-> "indeterminado", ultimo |-> None]

\* a variant whose hard-break branches return without persisting the bias
determinar_sesgo_m15_ruptura_sin_persistir(df_m15, ultimo) ==
    IF Len(df_m15) < MIN_VELAS_M15
    THEN [sesgo |-> None, nivel |-> << >>, rama |-> "insuficiente", ultimo |-> ultimo]
    ELSE
    LET ultimas == TailN(df_m15, MIN_VELAS_M15)
        high == MaxHigh(ultimas)
        low == MinLow(ultimas)
        precio == ultimas[Len(ultimas)].close
        tendencia == ultimas[Len(ultimas)].close - ultimas[1].close
    IN  IF precio > high
        THEN [sesgo |-> "alcista", nivel |-> << high >>, rama |-> "ruptura", ultimo |-> ultimo]
        ELSE IF precio < low
        THEN [sesgo |-> "bajista", nivel |-> << low >>, rama |-> "ruptura", ultimo |-> ultimo]
        ELSE IF precio > high - UMBRAL_SESION
        THEN [sesgo |-> "alcista", nivel |-> << high >>, rama |-> "umbral", ultimo |-> "alcista"]
        ELSE IF precio < low + UMBRAL_SESION
        THEN [sesgo |-> "bajista", nivel |-> << low >>, rama |-> "umbral", ultimo |-> "bajista"]
        ELSE IF tendencia > 0
        THEN [sesgo |-> "alcista", nivel |-> << high >>, rama |-> "tendencia", ultimo |-> "alcista"]
        ELSE IF tendencia < 0
        THEN [sesgo |-> "bajista", nivel |-> << low >>, rama |-> "tendencia", ultimo |-> "bajista"]
        ELSE IF ultimo # None
        THEN [sesgo |-> ultimo, nivel |-> << >>, rama |-> "ultimo_valido", ultimo |-> ultimo]
        ELSE [sesgo |-> None, nivel |-> << >>, rama |-> "indeterminado", ultimo |-> ultimo]

\* a variant that answers a window that is too short with the persisted bias
determinar_sesgo_m15_reusa(df_m15, ultimo) ==
    IF Len(df_m15) < MIN_VELAS_M15
    THEN [sesgo |-> ultimo, nivel |-> << >>, rama |-> "insuficiente", ultimo |-> ultimo]
    ELSE
    LET ultimas == TailN(df_m15, MIN_VELAS_M15)
        high == MaxHigh(ultimas)
        low == MinLow(ultimas)
        precio == ultimas[Len(ultimas)].close
        tendencia == ultimas[Len(ultimas)].close - ultimas[1].close
    IN  IF precio > high
        THEN [sesgo |-> "alcista", nivel |-> << high >>, rama |-> "ruptura", ultimo |-> "alcista"]
        ELSE IF precio < low
        THEN [sesgo |-> "bajista", nivel |-> << low >>, rama |-> "ruptura", ultimo |-> "bajista"]
        ELSE IF precio > high - UMBRAL_SESION
        THEN [sesgo |-> "alcista", nivel |-> << high >>, rama |-> "umbral", ultimo |-> "alcista"]
        ELSE IF precio < low + UMBRAL_SESION
        THEN [sesgo |-> "bajista", nivel |-> << low >>, rama |-> "umbral", ultimo |-> "bajista"]
        ELSE IF tendencia > 0
        THEN [sesgo |-> "alcista", nivel |-> << high >>, rama |-> "tendencia", ultimo |-> "alcista"]
        ELSE IF tendencia < 0
        THEN [sesgo |-> "bajista", nivel |-> << low >>, rama |-> "tendencia", ultimo |-> "bajista"]
        ELSE IF ultimo # None
        THEN [sesgo |-> ultimo, nivel |-> << >>, rama |-> "ultimo_valido", ultimo |-> ultimo]
        ELSE [sesgo |-> None, nivel |-> << >>, rama |-> "indeterminado", ultimo |-> ultimo]

\* a variant that tests the lower soft threshold before the upper one
determinar_sesgo_m15_umbral_bajista_primero(df_m15, ultimo) ==
    IF Len(df_m15) < MIN_VELAS_M15
    THEN [sesgo |-> None, nivel |-> << >>, rama |-> "insuficiente", ultimo |-> ultimo]
    ELSE
    LET ultimas == TailN(df_m15, MIN_VELAS_M15)
        high == MaxHigh(ultimas)
        low == MinLow(ultimas)
        precio == ultimas[Len(ultimas)].close
        tendencia == ultimas[Len(ultimas)].close - ultimas[1].close
    IN  IF precio > high
        THEN [sesgo |-> "alcista", nivel |-> << high >>, rama |-> "ruptura", ultimo |-> "alcista"]
        ELSE IF precio < low
        THEN [sesgo |-> "bajista", nivel |-> << low >>, rama |-> "ruptura", ultimo |-> "bajista"]
        ELSE IF precio < low + UMBRAL_SESION
        THEN [sesgo |-> "bajista", nivel |-> << low >>, rama |-> "umbral", ultimo |-> "bajista"]
        ELSE IF precio > high - UMBRAL_SESION
        THEN [sesgo |-> "alcista", nivel |-> << high >>, rama |-> "umbral", ultimo |-> "alcista"]
        ELSE IF tendencia > 0
        THEN [sesgo |-> "alcista", nivel |-> << high >>, rama |-> "tendencia", ultimo |-> "alcista"]
        ELSE IF tendencia < 0
        THEN [sesgo |-> "bajista", nivel |-> << low >>, rama |-> "tendencia", ultimo |-> "bajista"]
        ELSE IF ultimo # None
        THEN [sesgo |-> ultimo, nivel |-> << >>, rama |-> "ultimo_valido", ultimo |-> ultimo]
        ELSE [sesgo |-> None, nivel |-> << >>, rama |-> "indeterminado", ultimo |-> ultimo]

\* a variant whose swing levels are taken over the window without its last
\* candle
determinar_sesgo_m15_sin_ultima(df_m15, ultimo) ==
    IF Len(df_m15) < MIN_VELAS_M15
    THEN [sesgo |-> None, nivel |-> << >>, rama |-> "insuficiente", ultimo |-> ultimo]
    ELSE
    LET ultimas == TailN(df_m15, MIN_VELAS_M15)
        previas == IF Len(ultimas) > 1 THEN SubSeq(ultimas, 1, Len(ultimas) - 1)
                   ELSE ultimas
        high == MaxHigh(previas)
        low == MinLow(previas)
        precio == ultimas[Len(ultimas)].close
        tendencia == ultimas[Len(ultimas)].close - ultimas[1].close
    IN  IF precio > high
        THEN [sesgo |-> "alcista", nivel |-> << high >>, rama |-> "ruptura", ultimo |-> "alcista"]
        ELSE IF precio < low
        THEN [sesgo |-> "bajista", nivel |-> << low >>, rama |-> "ruptura", ultimo |-> "bajista"]
        ELSE IF precio > high - UMBRAL_SESION
        THEN [sesgo |-> "alcista", nivel |-> << high >>, rama |-> "umbral", ultimo |-> "alcista"]
        ELSE IF precio < low + UMBRAL_SESION
        THEN [sesgo |-> "bajista", nivel |-> << low >>, rama |-> "umbral", ultimo |-> "bajista"]
        ELSE IF tendencia > 0
        THEN [sesgo |-> "alcista", nivel |-> << high >>, rama |-> "tendencia", ultimo |-> "alcista"]
        ELSE IF tendencia < 0
        THEN [sesgo |-> "bajista", nivel |-> << low >>, rama |-> "tendencia", ultimo |-> "bajista"]
        ELSE IF ultimo # None
        THEN [sesgo |-> ultimo, nivel |-> << >>, rama |-> "ultimo_valido", ultimo |-> ultimo]
        ELSE [sesgo |-> None, nivel |-> << >>, rama |-> "indeterminado", ultimo |-> ultimo]

\* a variant that takes a trend of zero for a rising one
determinar_sesgo_m15_cero_alcista(df_m15, ultimo) ==
    IF Len(df_m15) < MIN_VELAS_M15
    THEN [sesgo |-> None, nivel |-> << >>, rama |-> "insuficiente", ultimo |-> ultimo]
    ELSE
    LET ultimas == TailN(df_m15, MIN_VELAS_M15)
        high == MaxHigh(ultimas)
        low == MinLow(ultimas)
        precio == ultimas[Len(ultimas)].close
        tendencia == ultimas[Len(ultimas)].close - ultimas[1].close
    IN  IF precio > high
        THEN [sesgo |-> "alcista", nivel |-> << high >>, rama |-> "ruptura", ultimo |-> "alcista"]
        ELSE IF precio < low
        THEN [sesgo |-> "bajista", nivel |-> << low >>, rama |-> "ruptura", ultimo |-> "bajista"]
        ELSE IF precio > high - UMBRAL_SESION
        THEN [sesgo |-> "alcista", nivel |-> << high >>, rama |-> "umbral", ultimo |-> "alcista"]
        ELSE IF precio < low + UMBRAL_SESION
        THEN [sesgo |-> "bajista", nivel |-> << low >>, rama |-> "umbral", ultimo |-> "bajista"]
        ELSE IF tendencia >= 0
        THEN [sesgo |-> "alcista", nivel |-> << high >>, rama |-> "tendencia", ultimo |-> "alcista"]
        ELSE IF tendencia < 0
        THEN [sesgo |-> "bajista", nivel |-> << low >>, rama |-> "tendencia", ultimo |-> "bajista"]
        ELSE IF ultimo # None
        THEN [sesgo |-> ultimo, nivel |-> << >>, rama |-> "ultimo_valido", ultimo |-> ultimo]
        ELSE [sesgo |-> None, nivel |-> << >>, rama |-> "indeterminado", ultimo |-> ultimo]

determinar_sesgo_m15(df_m15, ultimo) ==
    IF Len(df_m15) < MIN_VELAS_M15
    THEN [sesgo |-> None, nivel |-> << >>, rama |-> "insuficiente", ultimo |-> ultimo]
    ELSE
    LET ultimas == TailN(df_m15, MIN_VELAS_M15)
        high == MaxHigh(ultimas)
        low == MinLow(ultimas)
        precio == ultimas[Len(ultimas)].close
        tendencia == ultimas[Len(ultimas)].close - ultimas[1].close
    IN  IF precio > high
        THEN [sesgo |-> "alcista", nivel |-> << high >>, rama |-> "ruptura", ultimo |-> "alcista"]
        ELSE IF precio < low
        THEN [sesgo |-> "bajista", nivel |-> << low >>, rama |-> "ruptura", ultimo |-> "bajista"]
        ELSE IF precio > high - UMBRAL_SESION
        THEN [sesgo |-> "alcista", nivel |-> << high >>, rama |-> "umbral", ultimo |-> "alcista"]
        ELSE IF precio < low + UMBRAL_SESION
        THEN [sesgo |-> "bajista", nivel |-> << low >>, rama |-> "umbral", ultimo |-> "bajista"]
        ELSE IF tendencia > 0
        THEN [sesgo |-> "alcista", nivel |-> << high >>, rama |-> "tendencia", ultimo |-> "alcista"]
        ELSE IF tendencia < 0
        THEN [sesgo |-> "bajista", nivel |-> << low >>, rama |-> "tendencia", ultimo |-> "bajista"]
        ELSE IF ultimo # None
        THEN [sesgo |-> ultimo, nivel |-> << >>, rama |-> "ultimo_valido", ultimo |-> ultimo]
        ELSE [sesgo |-> None, nivel |-> << >>, rama |-> "indeterminado", ultimo |-> ultimo]

(***************************************************************************)
(* Gaps.  A gap is the dictionary built at lines 283-302:                  *)
(* [direccion, fvg_alto, fvg_bajo, stop_loss, indice, timestamp, tipo].    *)
(***************************************************************************)
\* _vela_valida
vela_valida(vela) == vela.high - vela.low >= RANGO_MINIMO_VELA

\* _fvg_valido: abs(alto - bajo) >= atr * FVG_MIN_PCT_ATR
fvg_valido(fvg, atr) ==
    Abs(fvg.fvg_alto - fvg.fvg_bajo) * atr.den * FVG_MIN_PCT_DEN
        >= atr.num * FVG_MIN_PCT_NUM

\* twice _calcular_ce: (fvg_alto + fvg_bajo) / 2, kept as the doubled value
calcular_ce2(fvg) == fvg.fvg_alto + fvg.fvg_bajo

\* _detectar_inversion_fvg: rows idx+1 .. len-1 of the frame at hand
detectar_inversion_fvg(df_m1, fvg) ==
    \E j \in (fvg.indice + 1) .. (Len(df_m1) - 1) :
        \/ fvg.direccion = "compra" /\ Iloc(df_m1, j).close < fvg.fvg_bajo
        \/ fvg.direccion = "venta" /\ Iloc(df_m1, j).close > fvg.fvg_alto

\* a variant whose bearish gap takes its bounds from the same candles as the
\* bullish one (alto from v_actual, bajo from v_previa)
fvg_en_limites_copiados(df_m1, sesgo, atr, i) ==
    LET v_previa == Iloc(df_m1, i - 2)
        v_fvg == Iloc(df_m1, i - 1)
        v_actual == Iloc(df_m1, i)
        alcista == [direccion |-> "compra", fvg_alto |-> v_actual.low,
                    fvg_bajo |-> v_previa.high, stop_loss |-> v_fvg.low,
                    indice |-> i, timestamp |-> v_actual.time, tipo |-> "fvg"]
        bajista == [direccion |-> "venta", fvg_alto |-> v_actual.high,
                    fvg_bajo |-> v_previa.low, stop_loss |-> v_fvg.high,
                    indice |-> i, timestamp |-> v_actual.time, tipo |-> "fvg"]
    IN  IF ~(vela_valida(v_previa) /\ vela_valida(v_fvg) /\ vela_valida(v_actual))
        THEN << >>
        ELSE IF sesgo = "alcista" /\ v_actual.low > v_previa.high
        THEN (IF fvg_valido(alcista, atr) THEN << alcista >> ELSE << >>)
        ELSE IF sesgo = "bajista" /\ v_actual.high < v_previa.low
        THEN (IF fvg_valido(bajista, atr) THEN << bajista >> ELSE << >>)
        ELSE << >>

\* the body of the detection loop at index i: << gap >> or << >>
fvg_en(df_m1, sesgo, atr, i) ==
    LET v_previa == Iloc(df_m1, i - 2)
        v_fvg == Iloc(df_m1, i - 1)
        v_actual == Iloc(df_m1, i)
        alcista == [direccion |-> "compra", fvg_alto |-> v_actual.low,
                    fvg_bajo |-> v_previa.high, stop_loss |-> v_fvg.low,
                    indice |-> i, timestamp |-> v_actual.time, tipo |-> "fvg"]
        bajista == [direccion |-> "venta", fvg_alto |-> v_previa.low,
                    fvg_bajo |-> v_actual.high, stop_loss |-> v_fvg.high,
                    indice |-> i, timestamp |-> v_actual.time, tipo |-> "fvg"]
    IN  IF ~(vela_valida(v_previa) /\ vela_valida(v_fvg) /\ vela_valida(v_actual))
        THEN << >>
        ELSE IF sesgo = "alcista" /\ v_actual.low > v_previa.high
        THEN (IF fvg_valido(alcista, atr) THEN << alcista >> ELSE << >>)
        ELSE IF sesgo = "bajista" /\ v_actual.high < v_previa.low
        THEN (IF fvg_valido(bajista, atr) THEN << bajista >> ELSE << >>)
        ELSE << >>

\* a variant whose loop runs one index further down, to index 2
RECURSIVE detectar_fvgs_hasta_dos(_, _, _, _)
detectar_fvgs_hasta_dos(df_m1, sesgo, atr, i) ==
    IF i <= 1 THEN << >>
    ELSE fvg_en(df_m1, sesgo, atr, i)
             \o detectar_fvgs_hasta_dos(df_m1, sesgo, atr, i - 1)

\* for i in range(len(df_m1) - 5, 2, -1): the gaps found, newest index first
RECURSIVE detectar_fvgs(_, _, _, _)
detectar_fvgs(df_m1, sesgo, atr, i) ==
    IF i <= 2 THEN << >>
    ELSE fvg_en(df_m1, sesgo, atr, i) \o detectar_fvgs(df_m1, sesgo, atr, i - 1)

\* lines 246-310: fvg_detectados as the detection loop leaves it (nothing is
\* detected in a frame of fewer than 5 rows, which returns at line 265)
fvg_detectados_en(df_m1, sesgo) ==
    IF Len(df_m1) < 5 THEN << >>
    ELSE detectar_fvgs(df_m1, sesgo, current_atr(df_m1, ATR_PERIODO),
                       Len(df_m1) - 5)

\* the inverted copy of a gap (lines 315-319)
invertir(fvg) ==
    [fvg EXCEPT !.tipo = "ifvg",
                !.direccion = IF fvg.direccion = "venta" THEN "compra" ELSE "venta"]

(***************************************************************************)
(* The inversion loop (lines 313-323) over list(self.fvg_memoria): the     *)
(* state [fvg, ifvg, det] after the gaps of `pendientes` have been visited.*)
(***************************************************************************)
RECURSIVE verificar_inversiones(_, _, _)
verificar_inversiones(df_m1, pendientes, m) ==
    IF pendientes = << >> THEN m
    ELSE LET fvg == Head(pendientes)
         IN  IF detectar_inversion_fvg(df_m1, fvg)
             THEN verificar_inversiones(df_m1, Tail(pendientes),
                      [fvg |-> RemoveFirst(m.fvg, fvg),
                       ifvg |-> Append(m.ifvg, invertir(fvg)),
                       det |-> Append(m.det, invertir(fvg))])
             ELSE verificar_inversiones(df_m1, Tail(pendientes), m)

\* a variant that forgets to cut the old memory to its first five entries
actualizar_memoria_sin_tope(detectados, memoria) == Take(detectados, 3) \o memoria

\* a variant that puts the new gaps after the old ones
actualizar_memoria_al_final(detectados, memoria) ==
    Take(memoria, 5) \o Take(detectados, 3)

\* lines 329-330: detectados[:3] + memoria[:5]
actualizar_memoria(detectados, memoria) == Take(detectados, 3) \o Take(memoria, 5)

(***************************************************************************)
(* Entry evaluation (lines 344-436).  The branch of the if/elif chain that *)
(* an opportunity takes against the most recent candle.  The CE level is   *)
(* compared doubled: low <= ce  <=>  2*low <= alto + bajo.                 *)
(***************************************************************************)
\* a variant whose last branch does not compare the distance with the tolerance
rama_entrada_sin_tolerancia(reciente, oportunidad) ==
    LET ce2 == calcular_ce2(oportunidad)
    IN  IF oportunidad.direccion = "compra"
        THEN IF reciente.low <= oportunidad.fvg_alto
                /\ reciente.close > oportunidad.fvg_bajo
             THEN "mitigacion"
             ELSE IF 2 * reciente.low <= ce2 /\ 2 * reciente.close > ce2
             THEN "ce"
             ELSE "proximidad"
        ELSE IF oportunidad.direccion = "venta"
        THEN IF reciente.high >= oportunidad.fvg_bajo
                /\ reciente.close < oportunidad.fvg_alto
             THEN "mitigacion"
             ELSE IF 2 * reciente.high >= ce2 /\ 2 * reciente.close < ce2
             THEN "ce"
             ELSE "proximidad"
        ELSE "ninguna"

\* a variant that tests the CE touch before the full mitigation
rama_entrada_ce_primero(reciente, oportunidad) ==
    LET ce2 == calcular_ce2(oportunidad)
    IN  IF oportunidad.direccion = "compra"
        THEN IF 2 * reciente.low <= ce2 /\ 2 * reciente.close > ce2
             THEN "ce"
             ELSE IF reciente.low <= oportunidad.fvg_alto
                     /\ reciente.close > oportunidad.fvg_bajo
             THEN "mitigacion"
             ELSE IF Abs(reciente.low - oportunidad.fvg_alto) <= TOLERANCIA_MITIGACION
             THEN "proximidad"
             ELSE "ninguna"
        ELSE IF oportunidad.direccion = "venta"
        THEN IF 2 * reciente.high >= ce2 /\ 2 * reciente.close < ce2
             THEN "ce"
             ELSE IF reciente.high >= oportunidad.fvg_bajo
                     /\ reciente.close < oportunidad.fvg_alto
             THEN "mitigacion"
             ELSE IF Abs(reciente.high - oportunidad.fvg_bajo) <= TOLERANCIA_MITIGACION
             THEN "proximidad"
             ELSE "ninguna"
        ELSE "ninguna"

\* the if/elif chain of lines 347-432
rama_entrada(reciente, oportunidad) ==
    LET ce2 == calcular_ce2(oportunidad)
    IN  IF oportunidad.direccion = "compra"
        THEN IF reciente.low <= oportunidad.fvg_alto
                /\ reciente.close > oportunidad.fvg_bajo
             THEN "mitigacion"
             ELSE IF 2 * reciente.low <= ce2 /\ 2 * reciente.close > ce2
             THEN "ce"
             ELSE IF Abs(reciente.low - oportunidad.fvg_alto) <= TOLERANCIA_MITIGACION
             THEN "proximidad"
             ELSE "ninguna"
        ELSE IF oportunidad.direccion = "venta"
        THEN IF reciente.high >= oportunidad.fvg_bajo
                /\ reciente.close < oportunidad.fvg_alto
             THEN "mitigacion"
             ELSE IF 2 * reciente.high >= ce2 /\ 2 * reciente.close < ce2
             THEN "ce"
             ELSE IF Abs(reciente.high - oportunidad.fvg_bajo) <= TOLERANCIA_MITIGACION
             THEN "proximidad"
             ELSE "ninguna"
        ELSE "ninguna"

\* a variant whose signal is a buy whatever the opportunity's direction
crear_senal_siempre_compra(self, reciente, oportunidad, direccion) ==
    [direccion |-> "compra",
     precio_entrada |-> reciente.close,
     stop_loss |-> oportunidad.stop_loss,
     timestamp |-> reciente.time,
     tipo_oportunidad |-> oportunidad.tipo]

\* a variant that stamps the signal with the engine's running call number
\* instead of the candle's time
crear_senal_sello_propio(self, reciente, oportunidad, direccion) ==
    [direccion |-> direccion,
     precio_entrada |-> reciente.close,
     stop_loss |-> oportunidad.stop_loss,
     timestamp |-> self.analysis_counter,
     tipo_oportunidad |-> oportunidad.tipo]

\* _crear_señal
crear_senal(self, reciente, oportunidad, direccion) ==
    [direccion |-> direccion,
     precio_entrada |-> reciente.close,
     stop_loss |-> oportunidad.stop_loss,
     timestamp |-> reciente.time,
     tipo_oportunidad |-> oportunidad.tipo]

\* for idx, oportunidad in enumerate(todas_oportunidades): the first one that
\* takes a branch returns; idx is 0-based, -1 when the loop runs out
RECURSIVE evaluar_oportunidades(_, _, _, _)
evaluar_oportunidades(self, reciente, todas, idx) ==
    IF idx >= Len(todas)
    THEN [senal |-> NoSenal, idx |-> -1, rama |-> "ninguna"]
    ELSE LET oportunidad == todas[idx + 1]
             rama == rama_entrada(reciente, oportunidad)
         IN  IF rama # "ninguna"
             THEN [senal |-> crear_senal(self, reciente, oportunidad,
                                         oportunidad.direccion),
                   idx |-> idx, rama |-> rama]
             ELSE evaluar_oportunidades(self, reciente, todas, idx + 1)

\* a variant that lists the inversion gaps first
todas_oportunidades_ifvg_primero(fvg, ifvg) == ifvg \o fvg

\* line 342: self.fvg_memoria + self.ifvg_memoria
todas_oportunidades(fvg, ifvg) == fvg \o ifvg

(***************************************************************************)
(* _buscar_fvg_y_entrada_m1: the signal and the memories the call leaves   *)
(* in self.fvg_memoria and self.ifvg_memoria, with its audit data.         *)
(***************************************************************************)
buscar_fvg_y_entrada_m1(self, df_m1, sesgo) ==
    IF Len(df_m1) < 5
    THEN [senal |-> NoSenal, fvg |-> self.fvg_memoria, ifvg |-> self.ifvg_memoria,
          evaluado |-> FALSE,
          fvg_detectados |-> << >>, ifvg_detectados |-> << >>,
          todas |-> << >>, idx |-> -1, rama |-> "ninguna"]
    ELSE
    LET atr == current_atr(df_m1, ATR_PERIODO)
        reciente == Iloc(df_m1, Len(df_m1) - 1)
        fvg_detectados == detectar_fvgs(df_m1, sesgo, atr, Len(df_m1) - 5)
        inv == verificar_inversiones(df_m1, self.fvg_memoria,
                   [fvg |-> self.fvg_memoria, ifvg |-> self.ifvg_memoria,
                    det |-> << >>])
        fvg2 == actualizar_memoria(fvg_detectados, inv.fvg)
        ifvg2 == actualizar_memoria(inv.det, inv.ifvg)
        todas == todas_oportunidades(fvg2, ifvg2)
        ev == evaluar_oportunidades(self, reciente, todas, 0)
    IN  [senal |-> ev.senal, fvg |-> fvg2, ifvg |-> ifvg2, evaluado |-> TRUE,
         fvg_detectados |-> fvg_detectados, ifvg_detectados |-> inv.det,
         todas |-> todas, idx |-> ev.idx, rama |-> ev.rama]

(***************************************************************************)
(* _calcular_niveles_y_lote.  The lot is kept in hundredths:               *)
(* round(x, 2) * 100 for x = (CUENTA_INICIAL * RIESGO) / (sl_pips * VALOR),*)
(* rounded half to even as Python rounds; sl_pips = sl * 10000 is sl in    *)
(* ticks.  NoSenal stands for the None returned on sl == 0.                *)
(***************************************************************************)
RoundHalfEven(n, d) ==
    LET q == n \div d
        r == n % d
    IN  IF 2 * r < d THEN q
        ELSE IF 2 * r > d THEN q + 1
        ELSE IF q % 2 = 0 THEN q ELSE q + 1

\* the completed signal (lines 482-490) for stop distance sl, take-profit tp
\* and lot (in hundredths) lote
senal_completa(senal, sl, tp, lote) ==
    [direccion |-> senal.direccion,
     precio_entrada |-> senal.precio_entrada,
     stop_loss |-> senal.stop_loss,
     timestamp |-> senal.timestamp,
     tipo_oportunidad |-> senal.tipo_oportunidad,
     take_profit |-> tp,
     distancia_sl |-> sl,
     rr_ratio |-> RR,
     lote_cent |-> lote,
     tipo_entrada |-> senal.tipo_oportunidad]

\* a variant that also discards a stop distance of one tick
calcular_niveles_y_lote_un_tick(senal) ==
    LET sl == Abs(senal.precio_entrada - senal.stop_loss)
        tp == IF senal.direccion = "compra"
              THEN senal.precio_entrada + RR * sl
              ELSE senal.precio_entrada - RR * sl
        sl_pips == sl
        lote == Max2(1, RoundHalfEven(CUENTA_INICIAL * RIESGO_PCT,
                                      sl_pips * VALOR_POR_PIP))
    IN  IF sl <= 1 THEN NoSenal
        ELSE senal_completa(senal, sl, tp, lote)

\* a variant without the 0.01 floor of the lot
calcular_niveles_y_lote_sin_minimo(senal) ==
    LET sl == Abs(senal.precio_entrada - senal.stop_loss)
        tp == IF senal.direccion = "compra"
              THEN senal.precio_entrada + RR * sl
              ELSE senal.precio_entrada - RR * sl
        sl_pips == sl
        lote == RoundHalfEven(CUENTA_INICIAL * RIESGO_PCT,
                              sl_pips * VALOR_POR_PIP)
    IN  IF sl = 0 THEN NoSenal
        ELSE senal_completa(senal, sl, tp, lote)

calcular_niveles_y_lote(senal) ==
    LET sl == Abs(senal.precio_entrada - senal.stop_loss)
        tp == IF senal.direccion = "compra"
              THEN senal.precio_entrada + RR * sl
              ELSE senal.precio_entrada - RR * sl
        sl_pips == sl
        lote == Max2(1, RoundHalfEven(CUENTA_INICIAL * RIESGO_PCT,
                                      sl_pips * VALOR_POR_PIP))
    IN  IF sl = 0 THEN NoSenal
        ELSE senal_completa(senal, sl, tp, lote)

(***************************************************************************)
(* analizar_mercado on the engine `self` = [fvg_memoria, ifvg_memoria,     *)
(* ultimo_sesgo_valido, analysis_counter]: the engine after the call, the  *)
(* value returned and the analysis record handed to _guardar_analisis_toml *)
(* (which increments analysis_counter on every return path).               *)
(*                                                                         *)
(* The call is split where the code stops reading df_m15: etapa_m15 is     *)
(* what lines 542-564 compute from it (whether the filtered frame is       *)
(* empty, and the bias), analizar_desde is the rest of the call.           *)
(***************************************************************************)
NoVela == [time |-> -1, high |-> -1, low |-> -1, close |-> -1]

etapa_m15(self, df_m15) ==
    LET df_m15_filtrado == filtrar_sesion_ny(df_m15)
    IN  [vacio |-> df_m15_filtrado = << >>,
         s |-> determinar_sesgo_m15(df_m15_filtrado, self.ultimo_sesgo_valido)]

\* the analysis record as it stands before any stage has reported
traza_base(self) ==
    [analysis_id |-> self.analysis_counter + 1,
     razon |-> "datos_insuficientes",
     sesgo |-> None, rama_sesgo |-> "ninguna", nivel |-> << >>,
     evaluado |-> FALSE, reciente |-> NoVela,
     fvg_detectados |-> << >>, ifvg_detectados |-> << >>,
     todas |-> << >>, idx |-> -1, rama_entrada |-> "ninguna",
     candidata |-> NoSenal, velas |-> << >>]

\* a variant that names the file by the counter before it is increased
guardar_analisis_toml_numero_previo(self, analysis_data) ==
    [self |-> [self EXCEPT !.analysis_counter = @ + 1],
     archivo |-> [numero |-> self.analysis_counter,
                  analysis_id |-> analysis_data.analysis_id]]

\* _guardar_analisis_toml: the counter goes up by one and the record is
\* written under the new counter value; of the record the file keeps here
\* the analysis_id of its metadata
guardar_analisis_toml(self, analysis_data) ==
    [self |-> [self EXCEPT !.analysis_counter = @ + 1],
     archivo |-> [numero |-> self.analysis_counter + 1,
                  analysis_id |-> analysis_data.analysis_id]]

\* a return of analizar_mercado right after its one call of
\* _guardar_analisis_toml (lines 556-558, 571-573, 596-597, 603-605)
guardar_y_devolver(self, devuelto, analysis_data) ==
    LET g == guardar_analisis_toml(self, analysis_data)
    IN  [self |-> g.self, retorno |-> devuelto, traza |-> analysis_data,
         archivos |-> << g.archivo >>]

\* lines 551-558: a frame is empty after the filter
salida_sin_datos(self) ==
    guardar_y_devolver(self, NoSenal, traza_base(self))

\* a variant that empties the gap memories when no bias could be determined
salida_sin_sesgo_borra(self, s) ==
    guardar_y_devolver(
        [self EXCEPT !.ultimo_sesgo_valido = s.ultimo,
                     !.fvg_memoria = << >>, !.ifvg_memoria = << >>],
        NoSenal,
        [traza_base(self) EXCEPT !.razon = "sesgo_no_determinado",
                                 !.rama_sesgo = s.rama])

\* lines 566-573: the bias is None
salida_sin_sesgo(self, s) ==
    guardar_y_devolver(
        [self EXCEPT !.ultimo_sesgo_valido = s.ultimo],
        NoSenal,
        [traza_base(self) EXCEPT !.razon = "sesgo_no_determinado",
                                 !.rama_sesgo = s.rama])

\* a variant that puts the engine back as it was when the signal is discarded
salida_busqueda_deshace(self, s, b, df_m1) ==
    LET completa == IF b.senal # NoSenal
                    THEN calcular_niveles_y_lote(b.senal) ELSE NoSenal
        descartada == b.senal # NoSenal /\ completa = NoSenal
    IN  guardar_y_devolver(
         IF descartada THEN self
         ELSE [fvg_memoria |-> b.fvg, ifvg_memoria |-> b.ifvg,
               ultimo_sesgo_valido |-> s.ultimo,
               analysis_counter |-> self.analysis_counter],
         completa,
         [traza_base(self) EXCEPT
             !.razon = IF completa # NoSenal THEN "senal_generada"
                       ELSE "sin_senal_valida",
             !.sesgo = s.sesgo, !.rama_sesgo = s.rama, !.nivel = s.nivel,
             !.evaluado = b.evaluado,
             !.reciente = IF b.evaluado THEN Iloc(df_m1, Len(df_m1) - 1)
                          ELSE NoVela,
             !.fvg_detectados = b.fvg_detectados,
             !.ifvg_detectados = b.ifvg_detectados,
             !.todas = b.todas, !.idx = b.idx, !.rama_entrada = b.rama,
             !.candidata = b.senal,
             !.velas = IF b.evaluado THEN df_m1 ELSE << >>])

\* lines 576-605: the search ran; b is its result on the frame df_m1
salida_busqueda(self, s, b, df_m1) ==
    LET completa == IF b.senal # NoSenal
                    THEN calcular_niveles_y_lote(b.senal) ELSE NoSenal
    IN  guardar_y_devolver(
         [fvg_memoria |-> b.fvg, ifvg_memoria |-> b.ifvg,
          ultimo_sesgo_valido |-> s.ultimo,
          analysis_counter |-> self.analysis_counter],
         completa,
         [traza_base(self) EXCEPT
             !.razon = IF completa # NoSenal THEN "senal_generada"
                       ELSE "sin_senal_valida",
             !.sesgo = s.sesgo, !.rama_sesgo = s.rama, !.nivel = s.nivel,
             !.evaluado = b.evaluado,
             !.reciente = IF b.evaluado THEN Iloc(df_m1, Len(df_m1) - 1)
                          ELSE NoVela,
             !.fvg_detectados = b.fvg_detectados,
             !.ifvg_detectados = b.ifvg_detectados,
             !.todas = b.todas, !.idx = b.idx, !.rama_entrada = b.rama,
             !.candidata = b.senal,
             !.velas = IF b.evaluado THEN df_m1 ELSE << >>])

analizar_desde(self, e15, df_m1) ==
    LET df_m1_filtrado == filtrar_sesion_ny(df_m1)
    IN  IF e15.vacio \/ df_m1_filtrado = << >>
        THEN salida_sin_datos(self)
        ELSE IF e15.s.sesgo = None
        THEN salida_sin_sesgo(self, e15.s)
        ELSE salida_busqueda(self, e15.s,
                 buscar_fvg_y_entrada_m1(self, df_m1_filtrado, e15.s.sesgo),
                 df_m1_filtrado)

analizar_mercado(self, df_m15, df_m1) ==
    analizar_desde(self, etapa_m15(self, df_m15), df_m1)

(***************************************************************************)
(* The inputs.  The higher-timeframe windows are all the sequences of at   *)
(* most MaxVelasM15 candles of VelasM15.  The lower-timeframe windows are  *)
(* the windows of at most MaxVelasM1 consecutive candles of CintaM1, a     *)
(* price history that rises, holds, falls back and bounces; the time of a  *)
(* candle is its position in the history.                                  *)
(***************************************************************************)
VelasM15 == { [time |-> 0, high |-> 2, low |-> 0, close |-> c] : c \in 0 .. 2 }

RECURSIVE SeqsHasta(_, _)
SeqsHasta(S, n) ==
    IF n = 0 THEN { << >> }
    ELSE LET menos == SeqsHasta(S, n - 1)
         IN  menos \cup { Append(w, x) : w \in { v \in menos : Len(v) = n - 1 }, x \in S }

VentanasM15 == SeqsHasta(VelasM15, MaxVelasM15)

\* << low, high, close >> of the successive candles
PreciosM1 ==
    << <<0, 1, 1>>, <<1, 2, 2>>, <<2, 3, 3>>, <<3, 4, 4>>, <<4, 5, 5>>,
       <<5, 6, 6>>, <<6, 7, 7>>, <<7, 7, 7>>, <<6, 7, 6>>, <<5, 6, 5>>,
       <<4, 5, 4>>, <<3, 4, 3>>, <<2, 3, 2>>, <<1, 2, 1>>, <<1, 2, 2>>,
       <<2, 3, 3>>, <<3, 4, 3>>, <<3, 9, 9>> >>

CintaM1 ==
    [p \in 1 .. Len(PreciosM1) |->
        [time |-> p - 1, low |-> PreciosM1[p][1], high |-> PreciosM1[p][2],
         close |-> PreciosM1[p][3]]]

\* the window lengths: empty, too short to scan (< 5), scanned without a
\* detection index (5..7), with one (8), and the longest
LongitudesM1 == { 0, 4, 7, 8, MaxVelasM1 }

VentanasM1 ==
    UNION { { SubSeq(CintaM1, a, a + n - 1) :
                n \in { m \in LongitudesM1 : a + m - 1 <= Len(CintaM1) } } :
            a \in 1 .. Len(CintaM1) }

(***************************************************************************)
(* The state machine.                                                      *)
(***************************************************************************)
Init ==
    /\ fvg_memoria = << >>
    /\ ifvg_memoria = << >>
    /\ ultimo_sesgo_valido = None
    /\ analysis_counter = 0
    /\ operaciones = << >>
    /\ retorno = NoSenal
    /\ traza = [analysis_id |-> 0, razon |-> "inicio",
                sesgo |-> None, rama_sesgo |-> "ninguna", nivel |-> << >>,
                evaluado |-> FALSE, reciente |-> NoVela,
                fvg_detectados |-> << >>, ifvg_detectados |-> << >>,
                todas |-> << >>, idx |-> -1, rama_entrada |-> "ninguna",
                candidata |-> NoSenal, velas |-> << >>]
    /\ reloj = 0
    /\ archivos = << >>

Self == [fvg_memoria |-> fvg_memoria, ifvg_memoria |-> ifvg_memoria,
         ultimo_sesgo_valido |-> ultimo_sesgo_valido,
         analysis_counter |-> analysis_counter]

\* the feed does not go back in time: the windows it can deliver now end at
\* the newest candle delivered so far or later
VentanasAhora ==
    { w \in VentanasM1 : w = << >> \/ w[Len(w)].time >= reloj }

Analizar ==
    /\ analysis_counter < MaxAnalisis
    /\ \E e15 \in { etapa_m15(Self, df_m15) : df_m15 \in VentanasM15 },
          df_m1 \in VentanasAhora :
          LET r == analizar_desde(Self, e15, df_m1)
          IN  /\ reloj' = IF df_m1 = << >> THEN reloj ELSE df_m1[Len(df_m1)].time
              /\ fvg_memoria' = r.self.fvg_memoria
              /\ ifvg_memoria' = r.self.ifvg_memoria
              /\ ultimo_sesgo_valido' = r.self.ultimo_sesgo_valido
              /\ analysis_counter' = r.self.analysis_counter
              /\ retorno' = r.retorno
              /\ traza' = r.traza
              /\ archivos' = archivos \o r.archivos
              /\ UNCHANGED operaciones

Next == Analizar

Spec == Init /\ [][Next]_vars

(***************************************************************************)
(* The ledger.  An operation is a dictionary, here a record whose fields   *)
(* may be absent; dict.get(k, d) is Obtener.  Of an operation the ledger   *)
(* and the statistics read resultado, distancia_sl, tipo_entrada and       *)
(* razon_entrada.  `"CE" in razon` is membership in the set of the reason  *)
(* strings that contain CE.  The registration time, datetime.now(), is     *)
(* read as the time of the feed.                                           *)
(***************************************************************************)
Obtener(d, k, defecto) == IF k \in DOMAIN d THEN d[k] ELSE defecto

\* dict.copy() with d[k] = v
Poner(d, k, v) == [x \in DOMAIN d \cup {k} |-> IF x = k THEN v ELSE d[x]]

RazonesConCE == { "Entrada en CE (50%)" }
ContieneCE(razon) == razon \in RazonesConCE

\* a variant that puts the new record ahead of the others
registrar_operacion_al_frente(ops, operacion, ahora) ==
    << [timestamp |-> ahora,
        operacion |-> Poner(operacion, "tipo_entrada",
                            Obtener(operacion, "tipo_entrada", "fvg"))] >> \o ops

\* registrar_operacion: self.operaciones after the call
registrar_operacion(ops, operacion, ahora) ==
    Append(ops, [timestamp |-> ahora,
                 operacion |-> Poner(operacion, "tipo_entrada",
                                     Obtener(operacion, "tipo_entrada", "fvg"))])

RECURSIVE SumSeq(_)
SumSeq(q) == IF q = << >> THEN 0 ELSE Head(q) + SumSeq(Tail(q))

\* sum(1 for op in ops if cond): the sequence of the 0/1 terms, summed
Resultado(op) == Obtener(op.operacion, "resultado", None)
Tipo(op) == Obtener(op.operacion, "tipo_entrada", None)
TipoFvg(op) == Obtener(op.operacion, "tipo_entrada", "fvg")
EnCE(op) == ContieneCE(Obtener(op.operacion, "razon_entrada", ""))

\* float("inf"), as a fraction
Infinito == [num |-> 1, den |-> 0]

\* obtener_estadisticas; win_rate and profit_factor are kept as fractions
\* [num, den]
obtener_estadisticas(ops) ==
    IF ops = << >> THEN [total_operaciones |-> 0]
    ELSE
    LET n == Len(ops)
        Cuenta(C(_)) == SumSeq([k \in 1 .. n |-> IF C(ops[k]) THEN 1 ELSE 0])
        Ganancia(C(_)) ==
            SumSeq([k \in 1 .. n |->
                IF Resultado(ops[k]) = "ganancia" /\ C(ops[k])
                THEN ops[k].operacion.distancia_sl * RR ELSE 0])
        Perdida(C(_)) ==
            SumSeq([k \in 1 .. n |->
                IF Resultado(ops[k]) = "perdida" /\ C(ops[k])
                THEN ops[k].operacion.distancia_sl ELSE 0])
        EsGanancia(op) == Resultado(op) = "ganancia"
        EsFvgDefecto(op) == TipoFvg(op) = "fvg"
        EsFvg(op) == Tipo(op) = "fvg"
        EsIfvg(op) == Tipo(op) = "ifvg"
        total == n
        ganadas == Cuenta(EsGanancia)
        perdidas == total - ganadas
        ganancia_total == Ganancia(EsFvgDefecto) + Ganancia(EsIfvg) + Ganancia(EnCE)
        perdida_total == Perdida(EsFvgDefecto) + Perdida(EsIfvg) + Perdida(EnCE)
    IN  [total_operaciones |-> total,
         ganadas |-> ganadas,
         perdidas |-> perdidas,
         win_rate |-> [num |-> ganadas * 100, den |-> total],
         profit_factor |-> IF perdida_total > 0
                           THEN [num |-> ganancia_total, den |-> perdida_total]
                           ELSE Infinito,
         operaciones_fvg |-> Cuenta(EsFvg),
         operaciones_ifvg |-> Cuenta(EsIfvg),
         operaciones_ce |-> Cuenta(EnCE)]

(***************************************************************************)
(* The engine with its ledger: analyze on one pair of frames (a rising     *)
(* higher timeframe, and the lower-timeframe window that first stores a    *)
(* gap and then enters on its inversion), registrations and statistics.    *)
(* The operations registered are the signal just returned, marked pending  *)
(* as main.py does, and outcomes of either kind of entry, with and without *)
(* tipo_entrada and razon_entrada.  registrar_operacion returns None.      *)
(***************************************************************************)
VentanasM15Libro ==
    { << [time |-> 0, high |-> 2, low |-> 0, close |-> 0],
         [time |-> 0, high |-> 2, low |-> 0, close |-> 1] >> }

VentanasM1Libro == { SubSeq(CintaM1, 4, 11) }

OperacionesPosibles ==
    { [resultado |-> "pendiente", distancia_sl |-> 1, tipo_entrada |-> "fvg"],
      [resultado |-> "ganancia", distancia_sl |-> 1, tipo_entrada |-> "fvg"],
      [resultado |-> "ganancia", distancia_sl |-> 2, tipo_entrada |-> "ifvg"],
      [resultado |-> "perdida", distancia_sl |-> 2, tipo_entrada |-> "fvg"],
      [resultado |-> "perdida", distancia_sl |-> 1, tipo_entrada |-> "ifvg"],
      [resultado |-> "ganancia", distancia_sl |-> 1],
      [resultado |-> "ganancia", distancia_sl |-> 1, tipo_entrada |-> "fvg",
       razon_entrada |-> "Entrada en CE (50%)"],
      [resultado |-> "perdida", distancia_sl |-> 1, tipo_entrada |-> "fvg",
       razon_entrada |-> "FVG mitigado completamente"] }

EsSenal(r) == "direccion" \in DOMAIN r /\ r # NoSenal

\* main.py line 112: {"resultado": "pendiente", **señal}
OperacionesAhora ==
    OperacionesPosibles \cup
        (IF EsSenal(retorno) THEN { Poner(retorno, "resultado", "pendiente") }
         ELSE {})

AnalizarLibro ==
    /\ analysis_counter < MaxAnalisis
    /\ \E df_m15 \in VentanasM15Libro, df_m1 \in VentanasM1Libro :
          LET r == analizar_mercado(Self, df_m15, df_m1)
          IN  /\ reloj' = df_m1[Len(df_m1)].time
              /\ fvg_memoria' = r.self.fvg_memoria
              /\ ifvg_memoria' = r.self.ifvg_memoria
              /\ ultimo_sesgo_valido' = r.self.ultimo_sesgo_valido
              /\ analysis_counter' = r.self.analysis_counter
              /\ retorno' = r.retorno
              /\ traza' = r.traza
              /\ archivos' = archivos \o r.archivos
              /\ UNCHANGED operaciones

RegistrarOperacion ==
    /\ Len(operaciones) < MaxOperaciones
    /\ \E operacion \in OperacionesAhora :
          operaciones' = registrar_operacion(operaciones, operacion, reloj)
    /\ retorno' = NoSenal
    /\ UNCHANGED << fvg_memoria, ifvg_memoria, ultimo_sesgo_valido,
                    analysis_counter, traza, reloj, archivos >>

ObtenerEstadisticas ==
    /\ retorno' = obtener_estadisticas(operaciones)
    /\ UNCHANGED << fvg_memoria, ifvg_memoria, ultimo_sesgo_valido,
                    analysis_counter, operaciones, traza, reloj, archivos >>

NextLibro == AnalizarLibro \/ RegistrarOperacion \/ ObtenerEstadisticas

SpecLibro == Init /\ [][NextLibro]_vars

(***************************************************************************)
(* The bias detector on its own.  _determinar_sesgo_m15 is applied to      *)
(* frames whose last close may lie outside the candle's range, which is    *)
(* what takes the two hard-break branches; every candle has low <= high.   *)
(* traza holds the frame and the persisted bias the call started from,     *)
(* retorno the bias and the reference level it returned.                   *)
(***************************************************************************)
VelasSesgo ==
    { [time |-> 0, high |-> 2, low |-> 0, close |-> c] : c \in -1 .. 3 }
        \cup { [time |-> 0, high |-> 1, low |-> 1, close |-> 1] }

VentanasSesgo == SeqsHasta(VelasSesgo, MaxVelasSesgo)

DeterminarSesgo ==
    \E df_m15 \in VentanasSesgo :
        LET r == determinar_sesgo_m15(df_m15, ultimo_sesgo_valido)
        IN  /\ ultimo_sesgo_valido' = r.ultimo
            /\ retorno' = [sesgo |-> r.sesgo, nivel |-> r.nivel]
            /\ traza' = [razon |-> "sesgo_m15", velas |-> df_m15,
                         ultimo_sesgo_valido_usado |-> ultimo_sesgo_valido,
                         rama_sesgo |-> r.rama]
            /\ UNCHANGED << fvg_memoria, ifvg_memoria, analysis_counter,
                            operaciones, reloj, archivos >>

NextSesgo == DeterminarSesgo

SpecSesgo == Init /\ [][NextSesgo]_vars

(***************************************************************************)
(* The session filter on its own, for both values of the flag, on frames   *)
(* of candles at 10:00, 17:00, 21:00 and 22:00 UTC (05:00, 12:00, 16:00    *)
(* and 17:00 in New York: before, at the start of, at the end of and       *)
(* after the session).  traza holds the flag and the frame, retorno the    *)
(* frame returned.                                                         *)
(***************************************************************************)
VelasFiltro ==
    { [time |-> t, high |-> 2, low |-> 0, close |-> 1] : t \in {10, 17, 21, 22} }

VentanasFiltro == SeqsHasta(VelasFiltro, MaxVelasFiltro)

FiltrarSesion ==
    \E usar \in BOOLEAN, df \in VentanasFiltro :
        /\ retorno' = filtrar_sesion(usar, df)
        /\ traza' = [razon |-> "filtro_sesion", usar |-> usar, velas |-> df]
        /\ UNCHANGED << fvg_memoria, ifvg_memoria, ultimo_sesgo_valido,
                        analysis_counter, operaciones, reloj, archivos >>

NextFiltro == FiltrarSesion

SpecFiltro == Init /\ [][NextFiltro]_vars

(***************************************************************************)
(* Gap detection on its own: the detection loop on every window of at most *)
(* MaxVelasM1 consecutive candles of CintaM1, under either bias.  traza    *)
(* holds the frame and the bias, retorno the list fvg_detectados.          *)
(***************************************************************************)
VentanasDeteccion ==
    { w \in { SubSeq(CintaM1, a, b) :
                a \in 1 .. Len(CintaM1), b \in 0 .. Len(CintaM1) } :
        Len(w) <= MaxVelasM1 }

DetectarFvgs ==
    \E df_m1 \in VentanasDeteccion, sesgo \in {"alcista", "bajista"} :
        /\ retorno' = fvg_detectados_en(df_m1, sesgo)
        /\ traza' = [razon |-> "deteccion", velas |-> df_m1, sesgo |-> sesgo]
        /\ UNCHANGED << fvg_memoria, ifvg_memoria, ultimo_sesgo_valido,
                        analysis_counter, operaciones, reloj, archivos >>

NextDeteccion == DetectarFvgs

SpecDeteccion == Init /\ [][NextDeteccion]_vars

(***************************************************************************)
(* The entry evaluation alone (the loop of lines 344-432), on a list of    *)
(* one opportunity with upper bound above lower bound and on every most    *)
(* recent candle with low <= close <= high, prices in 0 .. MaxPrecioEntrada.*)
(* traza holds the candle and the opportunity, retorno the signal and the  *)
(* branch that made it.                                                    *)
(***************************************************************************)
VelasEntrada ==
    { v \in { [time |-> 0, low |-> l, high |-> h, close |-> c] :
                l \in 0 .. MaxPrecioEntrada, h \in 0 .. MaxPrecioEntrada,
                c \in 0 .. MaxPrecioEntrada } :
        v.low <= v.close /\ v.close <= v.high }

OportunidadesEntrada ==
    { o \in { [direccion |-> d, fvg_alto |-> a, fvg_bajo |-> b,
               stop_loss |-> IF d = "compra" THEN b ELSE a,
               indice |-> 3, timestamp |-> 0, tipo |-> "fvg"] :
                d \in {"compra", "venta"},
                a \in 0 .. MaxPrecioEntrada, b \in 0 .. MaxPrecioEntrada } :
        o.fvg_alto > o.fvg_bajo }

EvaluarEntrada ==
    \E reciente \in VelasEntrada, oportunidad \in OportunidadesEntrada :
        LET ev == evaluar_oportunidades(Self, reciente, << oportunidad >>, 0)
        IN  /\ retorno' = [senal |-> ev.senal, rama |-> ev.rama]
            /\ traza' = [razon |-> "entrada", reciente |-> reciente,
                         oportunidad |-> oportunidad]
            /\ UNCHANGED << fvg_memoria, ifvg_memoria, ultimo_sesgo_valido,
                            analysis_counter, operaciones, reloj, archivos >>

NextEntrada == EvaluarEntrada

SpecEntrada == Init /\ [][NextEntrada]_vars

(***************************************************************************)
(* The engine as the shipped configuration feeds it: every lower-timeframe *)
(* frame has at most VELAS_M1_ENVIADAS rows (main.py asks the feed for     *)
(* config["VELAS_M1"] candles).  The frames are the windows of CintaM1 of  *)
(* every such length at every position.                                    *)
(***************************************************************************)
VELAS_M1_ENVIADAS == 7

VentanasCortas ==
    { w \in { SubSeq(CintaM1, a, b) :
                a \in 1 .. Len(CintaM1), b \in 0 .. Len(CintaM1) } :
        Len(w) <= VELAS_M1_ENVIADAS }

AnalizarCorta ==
    /\ analysis_counter < MaxAnalisis
    /\ \E e15 \in { etapa_m15(Self, df_m15) : df_m15 \in VentanasM15 },
          df_m1 \in VentanasCortas :
          LET r == analizar_desde(Self, e15, df_m1)
          IN  /\ reloj' = IF df_m1 = << >> THEN reloj ELSE df_m1[Len(df_m1)].time
              /\ fvg_memoria' = r.self.fvg_memoria
              /\ ifvg_memoria' = r.self.ifvg_memoria
              /\ ultimo_sesgo_valido' = r.self.ultimo_sesgo_valido
              /\ analysis_counter' = r.self.analysis_counter
              /\ retorno' = r.retorno
              /\ traza' = r.traza
              /\ archivos' = archivos \o r.archivos
              /\ UNCHANGED operaciones

NextCorta == AnalizarCorta

SpecCorta == Init /\ [][NextCorta]_vars

(***************************************************************************)
(* The claims.                                                             *)
(***************************************************************************)
Gaps(mem) == { mem[k] : k \in 1 .. Len(mem) }

\* C1: after any sequence of analyze calls, the plain-gap memory and the
\* inversion-gap memory each hold at most 8 entries.
C1_MemoriaAcotada == Len(fvg_memoria) <= 8 /\ Len(ifvg_memoria) <= 8

\* a call that scanned for gaps left the plain-gap memory full
C1_Testigo == traza.evaluado /\ Len(fvg_memoria) = 8

\* C2: every gap held in plain-gap memory or in inversion-gap memory has its
\* upper bound strictly greater than its lower bound.
C2_AltoSobreBajo ==
    \A g \in Gaps(fvg_memoria) \cup Gaps(ifvg_memoria) : g.fvg_alto > g.fvg_bajo

\* both memories hold gaps: a bearish plain gap, and a bearish gap made by
\* inverting a bullish one
C2_Testigo ==
    /\ \E g \in Gaps(fvg_memoria) : g.direccion = "venta"
    /\ \E g \in Gaps(ifvg_memoria) : g.direccion = "venta"

\* C3: once last-valid-bias is bullish or bearish, no later analyze call
\* resets it to undetermined; it only changes to the bias decided by a
\* hard-break, soft-threshold or trend branch of that call.
C3_SesgoPersistente ==
    [][ultimo_sesgo_valido # None =>
         /\ ultimo_sesgo_valido' # None
         /\ ultimo_sesgo_valido' # ultimo_sesgo_valido =>
               /\ traza'.rama_sesgo \in {"ruptura", "umbral", "tendencia"}
               /\ ultimo_sesgo_valido' = traza'.sesgo]_vars

\* a call that stopped without a bias, made when a bias was already persisted
C3_Testigo ==
    /\ ultimo_sesgo_valido # None
    /\ traza.razon \in {"datos_insuficientes", "sesgo_no_determinado"}

\* the persisted state of an engine value
Persistido(self) ==
    << self.ultimo_sesgo_valido, self.fvg_memoria, self.ifvg_memoria >>

\* two more analyze calls fit in the behaviour
C4_DosLlamadas == analysis_counter + 2 <= MaxAnalisis

PasoAnalizar == analysis_counter' = analysis_counter + 1

\* C5: an analyze call that stops before gap detection (a series empty after
\* the filter, too few higher-timeframe candles, or no bias) returns none and
\* leaves last-valid-bias and both gap memories as they were.
C5_ParadaSinCambios ==
    [][PasoAnalizar
       /\ traza'.razon \in {"datos_insuficientes", "sesgo_no_determinado"} =>
           /\ retorno' = NoSenal
           /\ UNCHANGED << ultimo_sesgo_valido, fvg_memoria, ifvg_memoria >>]_vars

\* a call stopped for want of a bias on an engine holding gaps of both kinds
C5_Testigo ==
    /\ traza.razon = "sesgo_no_determinado"
    /\ fvg_memoria # << >>
    /\ ifvg_memoria # << >>

\* the candidate of the last call had its entry on its stop
CandidataSinDistancia(t) ==
    t.candidata # NoSenal /\ t.candidata.precio_entrada = t.candidata.stop_loss

\* C6 as stated: an analyze call whose candidate is discarded for a zero stop
\* distance leaves last-valid-bias and both gap memories as they were.
C6_DescarteSinCambios ==
    [][PasoAnalizar /\ CandidataSinDistancia(traza') =>
           UNCHANGED << ultimo_sesgo_valido, fvg_memoria, ifvg_memoria >>]_vars

\* C6 amended: an analyze call whose candidate is discarded for a zero stop
\* distance returns none, leaves last-valid-bias equal to the bias the call
\* determined, and leaves the gap memories as the call's own update made
\* them: the list the entry evaluation ran on, every entry of it either
\* found by this call or held before it.
C6_DescarteTrasActualizar ==
    [][PasoAnalizar /\ CandidataSinDistancia(traza') =>
           /\ retorno' = NoSenal
           /\ ultimo_sesgo_valido' = traza'.sesgo
           /\ fvg_memoria' \o ifvg_memoria' = traza'.todas
           /\ Gaps(fvg_memoria') \subseteq
                  Gaps(traza'.fvg_detectados) \cup Gaps(fvg_memoria)
           /\ Gaps(ifvg_memoria') \subseteq
                  Gaps(traza'.ifvg_detectados) \cup Gaps(ifvg_memoria)]_vars

\* a call discarded its candidate for a zero stop distance, having found a
\* gap in the window
C6_Testigo ==
    /\ CandidataSinDistancia(traza)
    /\ traza.fvg_detectados # << >>
    /\ retorno = NoSenal

\* C7: a candidate with stop distance zero is not completed and analyze
\* returns none; a candidate with a positive stop distance is returned
\* completed.
C7_DistanciaDecide ==
    traza.candidata # NoSenal =>
        LET c == traza.candidata
        IN  IF Abs(c.precio_entrada - c.stop_loss) = 0
            THEN retorno = NoSenal
            ELSE /\ retorno # NoSenal
                 /\ retorno.direccion = c.direccion
                 /\ retorno.precio_entrada = c.precio_entrada
                 /\ retorno.stop_loss = c.stop_loss
                 /\ retorno.distancia_sl = Abs(c.precio_entrada - c.stop_loss)

\* a candidate one tick from its stop was returned completed
C7_Testigo ==
    /\ traza.candidata # NoSenal
    /\ Abs(traza.candidata.precio_entrada - traza.candidata.stop_loss) = 1
    /\ retorno # NoSenal

\* C8: a returned signal has its take-profit above the entry for a buy and
\* below it for a sell, RR stop distances away, and a lot of at least 0.01.
C8_NivelesYLote ==
    retorno # NoSenal =>
        /\ retorno.distancia_sl > 0
        /\ retorno.direccion = "compra" =>
               /\ retorno.take_profit > retorno.precio_entrada
               /\ retorno.take_profit - retorno.precio_entrada
                      = RR * retorno.distancia_sl
        /\ retorno.direccion = "venta" =>
               /\ retorno.take_profit < retorno.precio_entrada
               /\ retorno.precio_entrada - retorno.take_profit
                      = RR * retorno.distancia_sl
        /\ retorno.lote_cent >= 1

\* a signal was returned whose risk-based lot rounds to nothing
C8_Testigo ==
    /\ retorno # NoSenal
    /\ RoundHalfEven(CUENTA_INICIAL * RIESGO_PCT,
                     retorno.distancia_sl * VALOR_POR_PIP) = 0

\* the three entry conditions of candle r on gap o, for the gap's direction
MitigacionCompleta(r, o) ==
    \/ o.direccion = "compra" /\ r.low <= o.fvg_alto /\ r.close > o.fvg_bajo
    \/ o.direccion = "venta" /\ r.high >= o.fvg_bajo /\ r.close < o.fvg_alto

ToqueCE(r, o) ==
    \/ /\ o.direccion = "compra"
       /\ 2 * r.low <= o.fvg_alto + o.fvg_bajo
       /\ 2 * r.close > o.fvg_alto + o.fvg_bajo
    \/ /\ o.direccion = "venta"
       /\ 2 * r.high >= o.fvg_alto + o.fvg_bajo
       /\ 2 * r.close < o.fvg_alto + o.fvg_bajo

Proximidad(r, o) ==
    \/ o.direccion = "compra" /\ Abs(r.low - o.fvg_alto) <= TOLERANCIA_MITIGACION
    \/ o.direccion = "venta" /\ Abs(r.high - o.fvg_bajo) <= TOLERANCIA_MITIGACION

CondicionEntrada(r, o) ==
    MitigacionCompleta(r, o) \/ ToqueCE(r, o) \/ Proximidad(r, o)

\* C9: the entry evaluation yields at most one signal, built from one
\* opportunity of its list, and for that opportunity full mitigation, the CE
\* touch or proximity holds against the most recent candle.
C9_CondicionDeEntrada ==
    traza.candidata # NoSenal =>
        /\ traza.idx + 1 \in 1 .. Len(traza.todas)
        /\ CondicionEntrada(traza.reciente, traza.todas[traza.idx + 1])

\* a signal whose opportunity is only near the candle: neither mitigated nor
\* touched at its CE
C9_Testigo ==
    /\ traza.candidata # NoSenal
    /\ ~ MitigacionCompleta(traza.reciente, traza.todas[traza.idx + 1])
    /\ ~ ToqueCE(traza.reciente, traza.todas[traza.idx + 1])

\* the positions of the opportunities of a list that candle r enters
Entradas(r, lista) == { k \in 1 .. Len(lista) : CondicionEntrada(r, lista[k]) }

\* C10: the signal is built from the first opportunity, plain gaps before
\* inversion gaps, that meets an entry condition: entry at the most recent
\* close, stop, direction and kind from the opportunity; with no such
\* opportunity there is no signal.
C10_PrimeraOportunidad ==
    traza.evaluado =>
        LET orden == fvg_memoria \o ifvg_memoria
            entradas == Entradas(traza.reciente, orden)
        IN  IF entradas = {}
            THEN traza.candidata = NoSenal
            ELSE LET k == CHOOSE n \in entradas : \A m \in entradas : n <= m
                 IN  /\ traza.idx + 1 = k
                     /\ traza.candidata # NoSenal
                     /\ traza.candidata.precio_entrada = traza.reciente.close
                     /\ traza.candidata.stop_loss = orden[k].stop_loss
                     /\ traza.candidata.direccion = orden[k].direccion
                     /\ traza.candidata.tipo_oportunidad = orden[k].tipo

\* a signal built from an inversion gap, after every plain gap failed, with
\* a later opportunity that would have matched too
C10_Testigo ==
    /\ traza.candidata # NoSenal
    /\ fvg_memoria # << >>
    /\ traza.idx + 1 > Len(fvg_memoria)
    /\ \E k \in Entradas(traza.reciente, fvg_memoria \o ifvg_memoria) :
           k > traza.idx + 1

(***************************************************************************)
(* The bias detector: the trailing window of a frame, its swing high and   *)
(* low, its price and its trend, stated from the frame.                    *)
(***************************************************************************)
LlamadaSesgo == traza.razon = "sesgo_m15"
VentanaSesgo == SubSeq(traza.velas, Len(traza.velas) - MIN_VELAS_M15 + 1,
                       Len(traza.velas))
SwingHigh ==
    CHOOSE h \in { VentanaSesgo[k].high : k \in 1 .. MIN_VELAS_M15 } :
        \A k \in 1 .. MIN_VELAS_M15 : VentanaSesgo[k].high <= h
SwingLow ==
    CHOOSE l \in { VentanaSesgo[k].low : k \in 1 .. MIN_VELAS_M15 } :
        \A k \in 1 .. MIN_VELAS_M15 : VentanaSesgo[k].low >= l
PrecioSesgo == VentanaSesgo[MIN_VELAS_M15].close
TendenciaSesgo == VentanaSesgo[MIN_VELAS_M15].close - VentanaSesgo[1].close
VentanaCompleta == LlamadaSesgo /\ Len(traza.velas) >= MIN_VELAS_M15
\* the call returned this bias with this level and persisted the bias
Decidido(sesgo, nivel) ==
    /\ retorno.sesgo = sesgo
    /\ retorno.nivel = << nivel >>
    /\ ultimo_sesgo_valido = sesgo

C12_FiltroIdentidad ==
    traza.razon = "filtro_sesion" /\ ~traza.usar => retorno = traza.velas

\* with the flag off, a frame with candles in and out of the session came
\* back whole
C12_Testigo ==
    /\ traza.razon = "filtro_sesion"
    /\ ~traza.usar
    /\ \E k \in 1 .. Len(traza.velas) : ~EnSesion(traza.velas[k])
    /\ \E k \in 1 .. Len(traza.velas) : EnSesion(traza.velas[k])
    /\ retorno = traza.velas

\* the last call was statistics(); retorno is its summary of the ledger
EsEstadistica == "total_operaciones" \in DOMAIN retorno
ConResultado(r) ==
    { k \in 1 .. Len(operaciones) : operaciones[k].operacion.resultado = r }

\* C13: statistics() reports total = number of records, wins = records with
\* outcome win, losses = records with outcome loss (pending ones in
\* neither) and win rate = wins / total x 100; of an empty ledger it
\* reports only total = 0.
C13_Conteos ==
    EsEstadistica =>
        IF operaciones = << >> THEN retorno = [total_operaciones |-> 0]
        ELSE /\ retorno.total_operaciones = Len(operaciones)
             /\ retorno.ganadas = Cardinality(ConResultado("ganancia"))
             /\ retorno.perdidas = Cardinality(ConResultado("perdida"))
             /\ retorno.win_rate.num * Len(operaciones)
                    = Cardinality(ConResultado("ganancia")) * 100
                          * retorno.win_rate.den

\* the stop distances of the records with outcome r, each record once
RECURSIVE SumaDistancias(_)
SumaDistancias(K) ==
    IF K = {} THEN 0
    ELSE LET k == CHOOSE x \in K : TRUE
         IN  operaciones[k].operacion.distancia_sl + SumaDistancias(K \ {k})

\* C14: of a non-empty ledger the profit factor is (sum of stop distance x
\* RR over the winning records) / (sum of stop distance over the losing
\* records), each record counted once, and infinite with no losing record.
C14_FactorDeBeneficio ==
    EsEstadistica /\ operaciones # << >> =>
        IF ConResultado("perdida") = {} THEN retorno.profit_factor = Infinito
        ELSE /\ retorno.profit_factor # Infinito
             /\ retorno.profit_factor.num
                    * SumaDistancias(ConResultado("perdida"))
                  = SumaDistancias(ConResultado("ganancia")) * RR
                    * retorno.profit_factor.den

\* C15: the ledger is append-only: a registration appends one record after
\* the others and changes no record, nor last-valid-bias, nor the gap
\* memories; analyze and statistics leave the ledger as it is.
C15_SoloAnexar ==
    [][/\ RegistrarOperacion => Len(operaciones') = Len(operaciones) + 1
       /\ operaciones' # operaciones =>
             /\ Len(operaciones') = Len(operaciones) + 1
             /\ SubSeq(operaciones', 1, Len(operaciones)) = operaciones
             /\ UNCHANGED << ultimo_sesgo_valido, fvg_memoria, ifvg_memoria >>
       /\ PasoAnalizar => UNCHANGED operaciones
       /\ ObtenerEstadisticas => UNCHANGED operaciones]_vars

\* a second record was registered on an engine holding gaps and a bias, and
\* statistics were then read
C15_Testigo ==
    /\ Len(operaciones) = 2
    /\ operaciones[1] # operaciones[2]
    /\ fvg_memoria # << >>
    /\ ultimo_sesgo_valido # None
    /\ EsEstadistica

\* C16: a frame shorter than the minimum window gives undetermined with no
\* reference level, also when a bias is persisted, and leaves the persisted
\* bias as it was.
C16_VentanaCorta ==
    LlamadaSesgo /\ Len(traza.velas) < MIN_VELAS_M15 =>
        /\ retorno.sesgo = None
        /\ retorno.nivel = << >>
        /\ ultimo_sesgo_valido = traza.ultimo_sesgo_valido_usado

\* a non-empty frame that is too short, given with a bias persisted
C16_Testigo ==
    /\ LlamadaSesgo
    /\ traza.velas # << >>
    /\ Len(traza.velas) < MIN_VELAS_M15
    /\ traza.ultimo_sesgo_valido_usado # None

\* neither hard break holds on the window
SinRuptura ==
    VentanaCompleta /\ ~(PrecioSesgo > SwingHigh) /\ ~(PrecioSesgo < SwingLow)
UmbralAlto == PrecioSesgo > SwingHigh - UMBRAL_SESION
UmbralBajo == PrecioSesgo < SwingLow + UMBRAL_SESION

\* C17: with no hard break the order is: close within the threshold of the
\* swing high gives bullish; else close within the threshold of the swing low
\* gives bearish; else a positive trend gives bullish and a negative one
\* bearish, each with its swing level and each persisted.
C17_UmbralYTendencia ==
    SinRuptura =>
        IF UmbralAlto THEN Decidido("alcista", SwingHigh)
        ELSE IF UmbralBajo THEN Decidido("bajista", SwingLow)
        ELSE IF TendenciaSesgo > 0 THEN Decidido("alcista", SwingHigh)
        ELSE IF TendenciaSesgo < 0 THEN Decidido("bajista", SwingLow)
        ELSE TRUE

\* both thresholds were met at once, with bearish persisted, and the call
\* gave bullish
C17_Testigo ==
    /\ SinRuptura
    /\ UmbralAlto
    /\ UmbralBajo
    /\ traza.ultimo_sesgo_valido_usado = "bajista"
    /\ retorno.sesgo = "alcista"

\* C18: with no hard break, no threshold met and a trend of zero, the call
\* returns the persisted bias with no reference level, or undetermined when
\* none is persisted, and leaves the persisted bias as it was.
C18_TendenciaCero ==
    SinRuptura /\ ~UmbralAlto /\ ~UmbralBajo /\ TendenciaSesgo = 0 =>
        /\ retorno.sesgo = traza.ultimo_sesgo_valido_usado
        /\ retorno.nivel = << >>
        /\ ultimo_sesgo_valido = traza.ultimo_sesgo_valido_usado

\* a flat window answered with the persisted bearish bias
C18_Testigo ==
    /\ SinRuptura /\ ~UmbralAlto /\ ~UmbralBajo /\ TendenciaSesgo = 0
    /\ traza.ultimo_sesgo_valido_usado = "bajista"
    /\ retorno.sesgo = "bajista"

(***************************************************************************)
(* Gap detection, stated from the frame: row(i) is the candle at 0-based   *)
(* index i.                                                                *)
(***************************************************************************)
LlamadaDeteccion == traza.razon = "deteccion"
Fila(i) == traza.velas[i + 1]
RangoSuficiente(c) == c.high - c.low >= RANGO_MINIMO_VELA
\* the gap the claim describes at index i under the bias of the call
GapEsperado(i) ==
    IF traza.sesgo = "alcista"
    THEN [direccion |-> "compra", fvg_alto |-> Fila(i).low,
          fvg_bajo |-> Fila(i - 2).high, stop_loss |-> Fila(i - 1).low]
    ELSE [direccion |-> "venta", fvg_alto |-> Fila(i - 2).low,
          fvg_bajo |-> Fila(i).high, stop_loss |-> Fila(i - 1).high]
PatronDeSesgo(i) ==
    IF traza.sesgo = "alcista" THEN Fila(i).low > Fila(i - 2).high
    ELSE Fila(i).high < Fila(i - 2).low
\* width >= ATR x minimum ratio, for the ATR of the frame
AnchoSuficiente(i) ==
    LET atr == current_atr(traza.velas, ATR_PERIODO)
    IN  (GapEsperado(i).fvg_alto - GapEsperado(i).fvg_bajo)
            * atr.den * FVG_MIN_PCT_DEN >= atr.num * FVG_MIN_PCT_NUM
IndicesConGap ==
    { i \in 3 .. Len(traza.velas) - 5 :
        /\ RangoSuficiente(Fila(i - 2))
        /\ RangoSuficiente(Fila(i - 1))
        /\ RangoSuficiente(Fila(i))
        /\ PatronDeSesgo(i)
        /\ AnchoSuficiente(i) }

\* C19: a gap is detected at index i exactly when 3 <= i <= length - 5, the
\* three candles i-2, i-1, i have at least the minimum range, the pattern of
\* the bias holds and the gap is at least ATR x ratio wide; its bounds, stop
\* anchor and direction are those of the pattern, and the list runs from
\* the newest index to the oldest.
C19_Deteccion ==
    LlamadaDeteccion =>
        /\ Len(retorno) = Cardinality(IndicesConGap)
        /\ \A k \in 1 .. Len(retorno) :
               /\ retorno[k].indice \in IndicesConGap
               /\ retorno[k].direccion = GapEsperado(retorno[k].indice).direccion
               /\ retorno[k].fvg_alto = GapEsperado(retorno[k].indice).fvg_alto
               /\ retorno[k].fvg_bajo = GapEsperado(retorno[k].indice).fvg_bajo
               /\ retorno[k].stop_loss = GapEsperado(retorno[k].indice).stop_loss
        /\ \A k \in 1 .. Len(retorno) - 1 :
               retorno[k].indice > retorno[k + 1].indice

\* a frame in which a gap was detected and another index shows the
\* pattern but is passed over
C19_Testigo ==
    /\ LlamadaDeteccion
    /\ Len(retorno) >= 1
    /\ \E i \in 3 .. Len(traza.velas) - 5 :
           PatronDeSesgo(i) /\ i \notin IndicesConGap

\* the gaps of a memory whose inverted copy is not among `invertidos`, in
\* their order
InversoDe(g) ==
    [g EXCEPT !.tipo = "ifvg",
              !.direccion = IF g.direccion = "venta" THEN "compra" ELSE "venta"]
RECURSIVE Restantes(_, _)
Restantes(mem, invertidos) ==
    IF mem = << >> THEN << >>
    ELSE IF InversoDe(Head(mem)) \in invertidos
         THEN Restantes(Tail(mem), invertidos)
         ELSE << Head(mem) >> \o Restantes(Tail(mem), invertidos)
Primeros(q, n) == [k \in 1 .. (IF Len(q) < n THEN Len(q) ELSE n) |-> q[k]]

\* C20: after an analyze call that reaches gap detection, plain-gap memory is
\* the first 3 of the newly detected gaps followed by the first 5 of the
\* prior memory without the gaps inverted in this call, in their order.
C20_MemoriaActualizada ==
    [][PasoAnalizar /\ traza'.evaluado =>
           fvg_memoria' =
               Primeros(traza'.fvg_detectados, 3)
                   \o Primeros(Restantes(fvg_memoria,
                                         Gaps(traza'.ifvg_detectados)), 5)]_vars

\* a call found more than three gaps, inverted a remembered one and kept
\* some of the prior memory behind the three newest
C20_Testigo ==
    /\ traza.evaluado
    /\ Len(traza.fvg_detectados) > 3
    /\ traza.ifvg_detectados # << >>
    /\ Len(fvg_memoria) > 3

\* some candle of the frame after the gap's source index closes beyond the
\* gap's opposite boundary
CierreOpuesto(velas, g) ==
    \E k \in (g.indice + 2) .. Len(velas) :
        IF g.direccion = "compra" THEN velas[k].close < g.fvg_bajo
        ELSE velas[k].close > g.fvg_alto
RECURSIVE Cerrados(_, _)
Cerrados(mem, velas) ==
    IF mem = << >> THEN << >>
    ELSE IF CierreOpuesto(velas, Head(mem))
         THEN << Head(mem) >> \o Cerrados(Tail(mem), velas)
         ELSE Cerrados(Tail(mem), velas)
RECURSIVE SinCerrados(_, _)
SinCerrados(mem, velas) ==
    IF mem = << >> THEN << >>
    ELSE IF CierreOpuesto(velas, Head(mem))
         THEN SinCerrados(Tail(mem), velas)
         ELSE << Head(mem) >> \o SinCerrados(Tail(mem), velas)
Inversos(q) == [k \in 1 .. Len(q) |-> InversoDe(q[k])]

\* the gaps inverted in a call are the remembered gaps closed beyond, flipped
\* and marked, and they leave the part of plain-gap memory that is kept
C21_InvertidosYRetirados ==
    [][PasoAnalizar /\ traza'.evaluado =>
           /\ traza'.ifvg_detectados = Inversos(Cerrados(fvg_memoria, traza'.velas))
           /\ fvg_memoria' =
                  Primeros(traza'.fvg_detectados, 3)
                      \o Primeros(SinCerrados(fvg_memoria, traza'.velas), 5)]_vars

\* C21: in an analyze call that reaches gap detection, every remembered plain
\* gap with a later candle closing beyond its opposite boundary leaves
\* plain-gap memory and enters inversion-gap memory flipped and marked, with
\* bounds and stop anchor unchanged; inversion-gap memory after the call is
\* the first 3 newly inverted gaps followed by the first 5 entries of the
\* prior inversion-gap memory.
C21_Inversion ==
    [][PasoAnalizar /\ traza'.evaluado =>
           /\ traza'.ifvg_detectados = Inversos(Cerrados(fvg_memoria, traza'.velas))
           /\ fvg_memoria' =
                  Primeros(traza'.fvg_detectados, 3)
                      \o Primeros(SinCerrados(fvg_memoria, traza'.velas), 5)
           /\ ifvg_memoria' =
                  Primeros(traza'.ifvg_detectados, 3)
                      \o Primeros(ifvg_memoria, 5)]_vars

\* the file numbers of the sink go strictly up
NumerosCrecientes(q) ==
    \A i, j \in 1 .. Len(q) : i < j => q[i].numero < q[j].numero

\* C22: every analyze call, whatever its return path, hands exactly one
\* record to the persistence sink and raises the counter by exactly one; the
\* record is written under the new counter value, which is the id stored in
\* it, and the numbers in the sink are strictly increasing.
C22_UnRegistroPorLlamada ==
    [][/\ analysis_counter' = analysis_counter + 1
       /\ archivos' = Append(archivos, [numero |-> analysis_counter',
                                        analysis_id |-> analysis_counter'])
       /\ traza'.analysis_id = analysis_counter'
       /\ NumerosCrecientes(archivos')]_vars

\* MaxAnalisis calls were made, the last one discarding its candidate signal
\* and an earlier one stopping before the search
C22_Testigo ==
    /\ Len(archivos) = MaxAnalisis
    /\ traza.razon = "sin_senal_valida"
    /\ traza.candidata # NoSenal
    /\ fvg_memoria # << >>

\* the stop of a signal lies on the losing side of its entry price
StopProtector(r) ==
    IF r.direccion = "compra" THEN r.stop_loss < r.precio_entrada
    ELSE r.stop_loss > r.precio_entrada

\* C23: every signal returned by analyze has its stop-loss strictly below the
\* entry price when it is a buy and strictly above it when it is a sell,
\* signals built from inversion gaps included.
C23_StopProtector ==
    retorno # NoSenal => StopProtector(retorno)

\* the trade direction that goes with a bias
DireccionDelSesgo(sesgo) == IF sesgo = "alcista" THEN "compra" ELSE "venta"

\* the opportunity the returned signal was built from
OportunidadElegida == traza.todas[traza.idx + 1]

\* C24: every signal returned by an analyze call has the direction of the
\* bias determined in that call: buy when bullish, sell when bearish.
C24_DireccionSegunSesgo ==
    retorno # NoSenal => retorno.direccion = DireccionDelSesgo(traza.sesgo)

\* C24 amended: every gap newly detected in an analyze call has the direction
\* of the bias determined in that call; a returned signal has the direction
\* of the opportunity it was built from, and so that of the bias when the
\* opportunity is one of the gaps newly detected in the call.
C24_DireccionDeLaOportunidad ==
    traza.evaluado =>
        /\ \A g \in Gaps(traza.fvg_detectados) :
               g.direccion = DireccionDelSesgo(traza.sesgo)
        /\ retorno # NoSenal =>
               /\ retorno.direccion = OportunidadElegida.direccion
               /\ OportunidadElegida \in Gaps(traza.fvg_detectados) =>
                      retorno.direccion = DireccionDelSesgo(traza.sesgo)

\* a sell signal built from a gap found in the same call, under a bearish bias
C24_Testigo ==
    /\ retorno # NoSenal
    /\ retorno.direccion = "venta"
    /\ traza.sesgo = "bajista"
    /\ OportunidadElegida \in Gaps(traza.fvg_detectados)

\* what identifies a gap: source timestamp, direction, bounds and kind
Identidad(g) == << g.timestamp, g.direccion, g.fvg_alto, g.fvg_bajo, g.tipo >>
SinRepetidos(mem) ==
    \A i, j \in 1 .. Len(mem) : i < j => Identidad(mem[i]) # Identidad(mem[j])

\* C25: after any sequence of analyze calls, no gap occurs more than once in
\* plain-gap memory and none occurs more than once in inversion-gap memory.
C25_SinDuplicados ==
    SinRepetidos(fvg_memoria) /\ SinRepetidos(ifvg_memoria)

LlamadaEntrada == traza.razon = "entrada"

PatronAlcistaEnVelas ==
    \E k \in 3 .. Len(traza.velas) :
        traza.velas[k].low > traza.velas[k - 2].high

VelasBienFormadas ==
    \A k \in 1 .. Len(traza.velas) :
        /\ traza.velas[k].low <= traza.velas[k].close
        /\ traza.velas[k].close <= traza.velas[k].high

\* C28: when every higher-timeframe candle is well formed, the bias detector
\* never takes a hard-break branch, the last close lying within the swing
\* levels of a window that includes its own candle; a bullish or bearish
\* result then comes from the soft threshold, the trend or the fallback.
C28_SinRupturaBienFormadas ==
    LlamadaSesgo /\ VelasBienFormadas =>
        /\ traza.rama_sesgo # "ruptura"
        /\ VentanaCompleta => SwingLow <= PrecioSesgo /\ PrecioSesgo <= SwingHigh
        /\ retorno.sesgo # None =>
               traza.rama_sesgo \in {"umbral", "tendencia", "ultimo_valido"}

\* well-formed candles whose last close is the swing high itself, above
\* every earlier high: bullish by the soft threshold
C28_Testigo ==
    /\ VentanaCompleta
    /\ VelasBienFormadas
    /\ PrecioSesgo = SwingHigh
    /\ \A k \in 1 .. MIN_VELAS_M15 - 1 : VentanaSesgo[k].high < PrecioSesgo
    /\ retorno.sesgo = "alcista"
    /\ traza.rama_sesgo = "umbral"

====
